---- MODULE Spec2Model ----
(***************************************************************************)
(* Execution-accuracy evaluation harness (evaluation_accuracy.py).         *)
(*                                                                         *)
(* Python values are tagged records [tag, v]:                              *)
(*   "str"  - a string (query text is a sequence of characters, a result   *)
(*            string is one of the literals the code builds)               *)
(*   "none" - None                                                         *)
(*   "num"  - an int/float (bool included, as isinstance(True, int))       *)
(*   "dict" - one document: the sequence of <<key, value>> pairs in        *)
(*            insertion order, keys distinct                               *)
(*   "list" - a list of documents                                          *)
(***************************************************************************)
EXTENDS Integers, Sequences, FiniteSets, TLC

VARIABLES pc, idx, total_count, correct_count, execution_errors, log_file,
          q_id, gold_mql, pred_mql, gold_result, pred_result, verdict,
          sent, backend_calls, processed, report

vars == <<pc, idx, total_count, correct_count, execution_errors, log_file,
          q_id, gold_mql, pred_mql, gold_result, pred_result, verdict,
          sent, backend_calls, processed, report>>

\* ------------------------------------------------------------ bounds
\* Longest batch (number of entries of the predictions file) explored.
MaxRecords == 2
\* Longest result list explored by the comparator harness.
MaxLen == 3

\* ------------------------------------------------------------ values
Str(s) == [tag |-> "str", v |-> s]
PyNone == [tag |-> "none", v |-> <<>>]
Num(n) == [tag |-> "num", v |-> n]
Dict(d) == [tag |-> "dict", v |-> d]
List(l) == [tag |-> "list", v |-> l]
\* A name that has not been assigned yet.
Unset == [tag |-> "unset", v |-> <<>>]

IsStr(x) == x.tag = "str"
IsNone(x) == x.tag = "none"
IsNum(x) == x.tag = "num"
IsList(x) == x.tag = "list"
IsDict(x) == x.tag = "dict"

\* Python truthiness of a query after clean_query: None and "" are falsy.
Falsy(x) == IsNone(x) \/ (IsStr(x) /\ x.v = <<>>)

\* ------------------------------------------------------------ clean_query
\* str.lower() on the letters that occur in the queries explored.
LowerOf == [A |-> "a", D |-> "d", E |-> "e", I |-> "i", L |-> "l", M |-> "m",
            N |-> "n", O |-> "o", P |-> "p", R |-> "r", S |-> "s", T |-> "t",
            U |-> "u", V |-> "v", W |-> "w"]

LowerChar(c) == IF c \in DOMAIN LowerOf THEN LowerOf[c] ELSE c

Lower(s) == [k \in 1..Len(s) |-> LowerChar(s[k])]

\* w in s  (substring test)
Contains(s, w) ==
    \E k \in 0..(Len(s) - Len(w)) : SubSeq(s, k + 1, k + Len(w)) = w

forbidden == { <<"r","e","m","o","v","e">>, <<"d","r","o","p">>,
               <<"d","e","l","e","t","e">>, <<"i","n","s","e","r","t">>,
               <<"u","p","d","a","t","e">>, <<"s","a","v","e">>,
               <<"w","r","i","t","e">> }

Return(x) == [exc |-> "", val |-> x]
Raise(e) == [exc |-> e, val |-> PyNone]

\* clean_query with the denylist matched against the text as written
\* (no .lower()).
clean_query_case_sensitive(query) ==
    IF ~IsStr(query) THEN Raise("AttributeError")
    ELSE IF \E word \in forbidden : Contains(query.v, word)
         THEN Return(PyNone)
         ELSE Return(query)

\* query is None: None.lower() raises AttributeError (line 20).
clean_query(query) ==
    IF ~IsStr(query) THEN Raise("AttributeError")
    ELSE IF \E word \in forbidden : Contains(Lower(query.v), word)
         THEN Return(PyNone)
         ELSE Return(query)

\* ------------------------------------------------------------ backend
\* What subprocess.run and json.loads can do for one call.
Backend(kind, value) == [kind |-> kind, value |-> value]

d1 == << <<"a", 1>> >>
d2 == << <<"a", 2>> >>
d3 == << <<"a", 1>>, <<"b", 2>> >>
d4 == << <<"b", 2>>, <<"a", 1>> >>

Documents == {d1, d2, d3, d4}

ExecutionErrorText == "EXECUTION_ERROR: <output>"
SystemErrorText == "SYSTEM_ERROR: <e>"

\* Values json.loads may return to the batch loop.
LoopValues == { PyNone, Num(1), List(<<d1, d2>>), List(<<d2, d1>>) }

BackendOutcomes ==
    { Backend("FileNotFoundError", PyNone), Backend("Exception", PyNone),
      Backend("error_output", PyNone), Backend("JSONDecodeError", PyNone) }
    \cup { Backend("json", x) : x \in LoopValues }

RunBackend(b) ==
    CASE b.kind = "error_output" -> Str(ExecutionErrorText)
      [] b.kind = "JSONDecodeError" -> Str("JSON_PARSE_ERROR")
      [] b.kind = "FileNotFoundError" -> Str("MONGOSH_NOT_FOUND")
      [] b.kind = "Exception" -> Str(SystemErrorText)
      [] OTHER -> b.value

\* Result of one call: the exception that escapes (or ""), the value
\* returned, and the queries handed to subprocess.run.
execute_mongo_query(db_name, query, b) ==
    LET c == clean_query(query) IN
    IF c.exc # "" THEN [exc |-> c.exc, val |-> PyNone, sent |-> <<>>]
    ELSE IF Falsy(c.val)
         THEN [exc |-> "", val |-> Str("UNSAFE_OR_EMPTY"), sent |-> <<>>]
         ELSE [exc |-> "", val |-> RunBackend(b), sent |-> <<c.val>>]

\* ------------------------------------------------------------ compare_results
KeyRank == [a |-> 1, b |-> 2]

RECURSIVE InsertByKey(_, _)
InsertByKey(p, s) ==
    IF s = <<>> THEN <<p>>
    ELSE IF KeyRank[p[1]] <= KeyRank[Head(s)[1]] THEN <<p>> \o s
    ELSE <<Head(s)>> \o InsertByKey(p, Tail(s))

RECURSIVE SortKeys(_)
SortKeys(d) == IF d = <<>> THEN <<>> ELSE InsertByKey(Head(d), SortKeys(Tail(d)))

\* json.dumps(x, sort_keys=True): the text is determined by the pairs in
\* key order. Values come from json.loads, so the call cannot raise and the
\* except branch of lines 89-90 is not reached.
json_dumps_sorted(x) == SortKeys(x)

\* dict == dict: same keys with the same values, insertion order ignored.
DictEq(x, y) == {x[k] : k \in DOMAIN x} = {y[k] : k \in DOMAIN y}

\* list == list: same length and equal element by element.
ListEq(g, p) == Len(g) = Len(p) /\ \A k \in 1..Len(g) : DictEq(g[k], p[k])

\* compare_results without the order-insensitive branch (lines 84-90).
compare_results_ordered(gold_res, pred_res) ==
    IF IsStr(gold_res) \/ IsStr(pred_res) THEN FALSE
    ELSE IF IsNone(gold_res) \/ IsNone(pred_res) THEN FALSE
    ELSE IF IsNum(gold_res) /\ IsNum(pred_res) THEN gold_res.v = pred_res.v
    ELSE IF IsList(gold_res) /\ IsList(pred_res) THEN
        IF Len(gold_res.v) # Len(pred_res.v) THEN FALSE
        ELSE ListEq(gold_res.v, pred_res.v)
    ELSE FALSE

\* compare_results with the equality fast path of line 82 hoisted above the
\* type checks of lines 70-71.
compare_results_equal_first(gold_res, pred_res) ==
    IF gold_res.tag = pred_res.tag /\ gold_res.v = pred_res.v THEN TRUE
    ELSE IF IsStr(gold_res) \/ IsStr(pred_res) THEN FALSE
    ELSE IF IsNone(gold_res) \/ IsNone(pred_res) THEN FALSE
    ELSE IF IsNum(gold_res) /\ IsNum(pred_res) THEN gold_res.v = pred_res.v
    ELSE IF IsList(gold_res) /\ IsList(pred_res) THEN
        IF Len(gold_res.v) # Len(pred_res.v) THEN FALSE
        ELSE IF ListEq(gold_res.v, pred_res.v) THEN TRUE
        ELSE LET gold_set == {json_dumps_sorted(gold_res.v[k]) : k \in 1..Len(gold_res.v)}
                 pred_set == {json_dumps_sorted(pred_res.v[k]) : k \in 1..Len(pred_res.v)}
             IN gold_set = pred_set
    ELSE FALSE

\* compare_results with a bare document taken as a list of one document.
compare_results_coerce(gold_res, pred_res) ==
    LET g == IF IsDict(gold_res) THEN List(<<gold_res.v>>) ELSE gold_res
        p == IF IsDict(pred_res) THEN List(<<pred_res.v>>) ELSE pred_res
    IN
    IF IsStr(g) \/ IsStr(p) THEN FALSE
    ELSE IF IsNone(g) \/ IsNone(p) THEN FALSE
    ELSE IF IsNum(g) /\ IsNum(p) THEN g.v = p.v
    ELSE IF IsList(g) /\ IsList(p) THEN
        IF Len(g.v) # Len(p.v) THEN FALSE
        ELSE IF ListEq(g.v, p.v) THEN TRUE
        ELSE LET gold_set == {json_dumps_sorted(g.v[k]) : k \in 1..Len(g.v)}
                 pred_set == {json_dumps_sorted(p.v[k]) : k \in 1..Len(p.v)}
             IN gold_set = pred_set
    ELSE FALSE

compare_results(gold_res, pred_res) ==
    IF IsStr(gold_res) \/ IsStr(pred_res) THEN FALSE
    ELSE IF IsNone(gold_res) \/ IsNone(pred_res) THEN FALSE
    ELSE IF IsNum(gold_res) /\ IsNum(pred_res) THEN gold_res.v = pred_res.v
    ELSE IF IsList(gold_res) /\ IsList(pred_res) THEN
        IF Len(gold_res.v) # Len(pred_res.v) THEN FALSE
        ELSE IF ListEq(gold_res.v, pred_res.v) THEN TRUE
        ELSE LET gold_set == {json_dumps_sorted(gold_res.v[k]) : k \in 1..Len(gold_res.v)}
                 pred_set == {json_dumps_sorted(pred_res.v[k]) : k \in 1..Len(pred_res.v)}
             IN gold_set = pred_set
    ELSE FALSE

\* ------------------------------------------------------------ batch loop
\* "ERROR" in s, for the result strings the program can hold.
HasERROR(s) == s \in {ExecutionErrorText, "JSON_PARSE_ERROR", SystemErrorText}

QuestionIds == {1, 2}

\* Query texts explored: absent field (None), empty text, a harmless
\* text, and one text per denylist word in
\* mixed letter case.
SafeQueries == { Str(<<"f","i","n","d">>) }

UnsafeQueries ==
    { Str(<<"x",".","R","e","M","o","v","e">>), Str(<<"D","R","O","P">>),
      Str(<<"d","e","L","E","T","E","(",")">>), Str(<<"I","n","s","e","r","t">>),
      Str(<<"u","p","d","a","t","e">>), Str(<<"x","S","A","V","E","x">>),
      Str(<<"W","r","i","t","e">>) }

Queries == {PyNone, Str(<<>>)} \cup SafeQueries \cup UnsafeQueries

\* One entry's block of log_file.write calls (line 126, or lines 132-136):
\* its identifier and heading. The query texts and result previews written
\* with them are not kept.
LogEntry(id, kind) == [id |-> id, kind |-> kind]
\* History of the loop: which branch each entry taken from data ended in
\* ("raised" when execute_mongo_query did not return).
Outcome(id, what) == [id |-> id, outcome |-> what]

Init ==
    /\ pc = "start"
    /\ idx = 0
    /\ total_count = 0
    /\ correct_count = 0
    /\ execution_errors = 0
    /\ log_file = <<>>
    /\ q_id = 0
    /\ gold_mql = Unset
    /\ pred_mql = Unset
    /\ gold_result = Unset
    /\ pred_result = Unset
    /\ verdict = <<>>
    /\ sent = <<>>
    /\ backend_calls = {}
    /\ processed = <<>>
    /\ report = <<>>

\* Lines 97-111: the two existence checks, then the load and the counters.
Startup ==
    /\ pc = "start"
    /\ \E predictions_exists \in BOOLEAN, mongosh_exists \in BOOLEAN :
          pc' = IF predictions_exists /\ mongosh_exists THEN "loop" ELSE "exited"
    /\ UNCHANGED <<idx, total_count, correct_count, execution_errors, log_file,
                   q_id, gold_mql, pred_mql, gold_result, pred_result, verdict,
                   sent, backend_calls, processed, report>>

\* What one call execute_mongo_query(db_name, query) can come back with,
\* over everything the backend may do when it is reached.
Executions(db_name, query) ==
    { execute_mongo_query(db_name, query, b) : b \in BackendOutcomes }

\* Every query an entry may carry, with each way its execution may end.
Calls ==
    UNION { { [query |-> q, run |-> e] : e \in Executions("db", q) } : q \in Queries }

\* The loop body with "total_count += 1" as its last statement, which the
\* "continue" of line 127 (and a raise) skips.
LoopBody_count_late(id, gq, pq, g, p) ==
    /\ total_count' = IF g.exc = "" /\ p.exc = "" /\ ~(IsStr(p.val) /\ HasERROR(p.val.v))
                       THEN total_count + 1 ELSE total_count
    /\ idx' = idx + 1
    /\ q_id' = id
    /\ gold_mql' = gq
    /\ pred_mql' = pq
    /\ report' = report
    /\ IF g.exc # "" THEN
          \* line 121 raises: the run ends with a traceback
          /\ pc' = "crashed"
          /\ sent' = <<>>
          /\ processed' = Append(processed, Outcome(id, "raised"))
          /\ UNCHANGED <<gold_result, pred_result, verdict, backend_calls,
                         correct_count, execution_errors, log_file>>
       ELSE IF p.exc # "" THEN
          \* line 122 raises, after the gold query ran
          /\ pc' = "crashed"
          /\ gold_result' = g.val
          /\ sent' = g.sent
          /\ backend_calls' = backend_calls \cup {g.sent[k] : k \in 1..Len(g.sent)}
          /\ processed' = Append(processed, Outcome(id, "raised"))
          /\ UNCHANGED <<pred_result, verdict, correct_count, execution_errors,
                         log_file>>
       ELSE
          /\ pc' = "loop"
          /\ gold_result' = g.val
          /\ pred_result' = p.val
          /\ sent' = g.sent \o p.sent
          /\ backend_calls' = backend_calls
                                \cup {g.sent[k] : k \in 1..Len(g.sent)}
                                \cup {p.sent[k] : k \in 1..Len(p.sent)}
          /\ IF IsStr(p.val) /\ HasERROR(p.val.v) THEN
                /\ execution_errors' = execution_errors + 1
                /\ log_file' = Append(log_file, LogEntry(id, "EXECUTION ERROR"))
                /\ processed' = Append(processed, Outcome(id, "error"))
                /\ verdict' = <<>>
                /\ UNCHANGED correct_count
             ELSE IF compare_results(g.val, p.val) THEN
                /\ correct_count' = correct_count + 1
                /\ processed' = Append(processed, Outcome(id, "correct"))
                /\ verdict' = <<TRUE>>
                /\ UNCHANGED <<execution_errors, log_file>>
             ELSE
                /\ log_file' = Append(log_file, LogEntry(id, "MISMATCH"))
                /\ processed' = Append(processed, Outcome(id, "mismatch"))
                /\ verdict' = <<FALSE>>
                /\ UNCHANGED <<correct_count, execution_errors>>

\* Lines 115-136 for one entry; g and p are the outcomes of the calls of
\* lines 121 and 122.
LoopBody(id, gq, pq, g, p) ==
    /\ total_count' = total_count + 1
    /\ idx' = idx + 1
    /\ q_id' = id
    /\ gold_mql' = gq
    /\ pred_mql' = pq
    /\ report' = report
    /\ IF g.exc # "" THEN
          \* line 121 raises: the run ends with a traceback
          /\ pc' = "crashed"
          /\ sent' = <<>>
          /\ processed' = Append(processed, Outcome(id, "raised"))
          /\ UNCHANGED <<gold_result, pred_result, verdict, backend_calls,
                         correct_count, execution_errors, log_file>>
       ELSE IF p.exc # "" THEN
          \* line 122 raises, after the gold query ran
          /\ pc' = "crashed"
          /\ gold_result' = g.val
          /\ sent' = g.sent
          /\ backend_calls' = backend_calls \cup {g.sent[k] : k \in 1..Len(g.sent)}
          /\ processed' = Append(processed, Outcome(id, "raised"))
          /\ UNCHANGED <<pred_result, verdict, correct_count, execution_errors,
                         log_file>>
       ELSE
          /\ pc' = "loop"
          /\ gold_result' = g.val
          /\ pred_result' = p.val
          /\ sent' = g.sent \o p.sent
          /\ backend_calls' = backend_calls
                                \cup {g.sent[k] : k \in 1..Len(g.sent)}
                                \cup {p.sent[k] : k \in 1..Len(p.sent)}
          /\ IF IsStr(p.val) /\ HasERROR(p.val.v) THEN
                /\ execution_errors' = execution_errors + 1
                /\ log_file' = Append(log_file, LogEntry(id, "EXECUTION ERROR"))
                /\ processed' = Append(processed, Outcome(id, "error"))
                /\ verdict' = <<>>
                /\ UNCHANGED correct_count
             ELSE IF compare_results(g.val, p.val) THEN
                /\ correct_count' = correct_count + 1
                /\ processed' = Append(processed, Outcome(id, "correct"))
                /\ verdict' = <<TRUE>>
                /\ UNCHANGED <<execution_errors, log_file>>
             ELSE
                /\ log_file' = Append(log_file, LogEntry(id, "MISMATCH"))
                /\ processed' = Append(processed, Outcome(id, "mismatch"))
                /\ verdict' = <<FALSE>>
                /\ UNCHANGED <<correct_count, execution_errors>>

\* One iteration of "for entry in tqdm(data)".
ProcessEntry ==
    /\ pc = "loop"
    /\ idx < MaxRecords
    /\ \E id \in QuestionIds, gold \in Calls, pred \in Calls :
          LoopBody(id, gold.query, pred.query, gold.run, pred.run)

\* The report with the execution errors taken out of the incorrect count.
Report_excluding_errors ==
    /\ pc = "loop"
    /\ pc' = "done"
    /\ report' = << [ total |-> total_count,
                      correct |-> correct_count,
                      incorrect |-> total_count - correct_count - execution_errors,
                      errors |-> execution_errors,
                      accuracy |-> IF total_count > 0
                                   THEN [num |-> correct_count * 100, den |-> total_count]
                                   ELSE [num |-> 0, den |-> 1] ] >>
    /\ UNCHANGED <<idx, total_count, correct_count, execution_errors, log_file,
                   q_id, gold_mql, pred_mql, gold_result, pred_result, verdict,
                   sent, backend_calls, processed>>

\* Lines 139-151, once data is exhausted.
Report ==
    /\ pc = "loop"
    /\ pc' = "done"
    /\ report' = << [ total |-> total_count,
                      correct |-> correct_count,
                      incorrect |-> total_count - correct_count,
                      errors |-> execution_errors,
                      accuracy |-> IF total_count > 0
                                   THEN [num |-> correct_count * 100, den |-> total_count]
                                   ELSE [num |-> 0, den |-> 1] ] >>
    /\ UNCHANGED <<idx, total_count, correct_count, execution_errors, log_file,
                   q_id, gold_mql, pred_mql, gold_result, pred_result, verdict,
                   sent, backend_calls, processed>>

Next == Startup \/ ProcessEntry \/ Report

Spec == Init /\ [][Next]_vars

\* ------------------------------------------------------------ comparator harness
RECURSIVE SeqsUpTo(_, _)
SeqsUpTo(S, n) ==
    IF n = 0 THEN {<<>>}
    ELSE LET shorter == SeqsUpTo(S, n - 1)
         IN shorter \cup {Append(s, x) : s \in shorter, x \in S}

\* The values execute_mongo_query can return.
Results ==
    { Str("UNSAFE_OR_EMPTY"), Str(ExecutionErrorText), Str("JSON_PARSE_ERROR"),
      Str("MONGOSH_NOT_FOUND"), Str(SystemErrorText), Str("ok"),
      PyNone, Num(1), Num(2) }
    \cup { Dict(d) : d \in Documents }
    \cup { List(l) : l \in SeqsUpTo(Documents, MaxLen) }

InitCmp ==
    /\ pc = "call"
    /\ gold_result \in Results
    /\ pred_result \in Results
    /\ verdict = <<>>
    /\ idx = 0
    /\ total_count = 0
    /\ correct_count = 0
    /\ execution_errors = 0
    /\ log_file = <<>>
    /\ q_id = 0
    /\ gold_mql = Unset
    /\ pred_mql = Unset
    /\ sent = <<>>
    /\ backend_calls = {}
    /\ processed = <<>>
    /\ report = <<>>

\* One call compare_results(gold_result, pred_result).
CompareCall ==
    /\ pc = "call"
    /\ verdict' = <<compare_results(gold_result, pred_result)>>
    /\ pc' = "returned"
    /\ UNCHANGED <<idx, total_count, correct_count, execution_errors, log_file,
                   q_id, gold_mql, pred_mql, gold_result, pred_result,
                   sent, backend_calls, processed, report>>

NextCmp == CompareCall

SpecCmp == InitCmp /\ [][NextCmp]_vars

\* The batch run together with the comparator called on its own.
SpecAll == (Init \/ InitCmp) /\ [][Next \/ NextCmp]_vars

\* ============================================================ properties
FailureTexts == { "UNSAFE_OR_EMPTY", ExecutionErrorText, "JSON_PARSE_ERROR",
                  "MONGOSH_NOT_FOUND", SystemErrorText }

\* x is a failure/rejected variant of an execution result.
IsFailure(x) == IsStr(x) /\ x.v \in FailureTexts

\* The last entry taken from data went through lines 115-136 without raising.
EntryCompleted == pc \in {"loop", "done"} /\ processed # <<>>

LastOutcome == processed[Len(processed)].outcome

\* Number of entries of list l that are the document d (dict equality).
Occurrences(l, d) == Cardinality({k \in 1..Len(l) : DictEq(l[k], d)})

\* p holds the documents of g, each as often as g does, in any order.
IsPermutation(g, p) ==
    /\ Len(g) = Len(p)
    /\ \A d \in Documents : Occurrences(g, d) = Occurrences(p, d)

NumberOf(what) == Cardinality({k \in 1..Len(processed) : processed[k].outcome = what})

NotCorrect(o) == o.outcome # "correct"

\* The query text is empty or holds a denylist word in some letter case.
DenylistedOrEmpty(q) ==
    q.v = <<>> \/ \E word \in forbidden : Contains(Lower(q.v), word)

InSent(q) == \E k \in 1..Len(sent) : sent[k] = q

\* C1: whenever compare_results is called on two lists and the predicted
\* list is a permutation of the gold list, it returns True.
C1_PermutationMatches ==
    ( /\ pc = "returned"
      /\ IsList(gold_result) /\ IsList(pred_result)
      /\ IsPermutation(gold_result.v, pred_result.v) )
    => verdict = <<TRUE>>

C1_Witness ==
    /\ pc = "returned"
    /\ IsList(gold_result) /\ IsList(pred_result)
    /\ Len(gold_result.v) = MaxLen
    /\ IsPermutation(gold_result.v, pred_result.v)
    /\ ~ListEq(gold_result.v, pred_result.v)
    /\ verdict = <<TRUE>>

\* C2: for two lists of equal length, compare_results returns True only if
\* both hold the same documents with the same multiplicities.
C2_SameMultiplicities ==
    ( /\ pc = "returned"
      /\ IsList(gold_result) /\ IsList(pred_result)
      /\ Len(gold_result.v) = Len(pred_result.v)
      /\ verdict = <<TRUE>> )
    => IsPermutation(gold_result.v, pred_result.v)

\* C3: compare_results returns False whenever either argument is a failure
\* variant or None, also for two identical failures; and an entry whose gold
\* or predicted execution failed is never counted as correct.
C3_FailureNeverMatches ==
    /\ ( /\ pc = "returned"
         /\ \/ IsFailure(gold_result) \/ IsFailure(pred_result)
            \/ IsNone(gold_result) \/ IsNone(pred_result) )
       => verdict = <<FALSE>>
    /\ ( /\ EntryCompleted
         /\ \/ IsFailure(gold_result) \/ IsFailure(pred_result)
            \/ IsNone(gold_result) \/ IsNone(pred_result) )
       => (LastOutcome # "correct" /\ verdict # <<TRUE>>)
    /\ correct_count = NumberOf("correct")

C3_Witness ==
    /\ EntryCompleted
    /\ gold_result = Str("UNSAFE_OR_EMPTY")
    /\ pred_result = Str("UNSAFE_OR_EMPTY")
    /\ verdict = <<FALSE>>
    /\ LastOutcome = "mismatch"

\* C4 (as stated): in the final report total = correct + incorrect + errors.
C4_ErrorsOutsideIncorrect ==
    pc = "done" =>
        report[1].total = report[1].correct + report[1].incorrect + report[1].errors

\* C4 (amended): an entry whose predicted execution fails with a backend
\* error is counted in the execution-error count and in total, and it is
\* also part of the reported incorrect count: in the final report
\* total = correct + incorrect and errors <= incorrect.
C4_ErrorsWithinIncorrect ==
    /\ (EntryCompleted /\ pred_result = Str(ExecutionErrorText))
          => LastOutcome = "error"
    /\ pc = "done" =>
          /\ report[1].total = Len(processed)
          /\ report[1].errors = NumberOf("error")
          /\ report[1].total = report[1].correct + report[1].incorrect
          /\ report[1].errors <= report[1].incorrect

C4_Witness ==
    /\ pc = "done"
    /\ pred_result = Str(ExecutionErrorText)
    /\ report[1].errors >= 1
    /\ report[1].correct >= 1

\* C5: every entry whose gold or predicted execution returns a non-Success
\* outcome increments the execution-error count.
C5_EveryFailureCounted ==
    (EntryCompleted /\ (IsFailure(gold_result) \/ IsFailure(pred_result)))
       => (LastOutcome = "error" /\ execution_errors = NumberOf("error"))

\* C6: an entry without the gold or the predicted query is rejected as
\* unsafe/empty without raising, and the loop goes on.
C6_MissingFieldRejected ==
    (processed # <<>> /\ (IsNone(gold_mql) \/ IsNone(pred_mql)))
       => /\ pc # "crashed"
          /\ IsNone(gold_mql) => gold_result = Str("UNSAFE_OR_EMPTY")
          /\ IsNone(pred_mql) => pred_result = Str("UNSAFE_OR_EMPTY")

\* C7: the backend is never called with an empty query or one that holds a
\* denylist word in any letter case; such a query yields UNSAFE_OR_EMPTY, and
\* the other query of the entry is still executed when it is harmless.
C7_DenylistBeforeBackend ==
    /\ \A q \in backend_calls : IsStr(q) /\ ~DenylistedOrEmpty(q)
    /\ (EntryCompleted /\ IsStr(gold_mql) /\ IsStr(pred_mql)) =>
          /\ DenylistedOrEmpty(gold_mql) => gold_result = Str("UNSAFE_OR_EMPTY")
          /\ DenylistedOrEmpty(pred_mql) => pred_result = Str("UNSAFE_OR_EMPTY")
          /\ ~DenylistedOrEmpty(gold_mql) => InSent(gold_mql)
          /\ ~DenylistedOrEmpty(pred_mql) => InSent(pred_mql)
          /\ \A k \in 1..Len(sent) : sent[k] \in {gold_mql, pred_mql}

C7_Witness ==
    /\ EntryCompleted
    /\ gold_mql = Str(<<"D","R","O","P">>)
    /\ gold_result = Str("UNSAFE_OR_EMPTY")
    /\ ~DenylistedOrEmpty(pred_mql)
    /\ sent = <<pred_mql>>
    /\ Cardinality(backend_calls) = 1

\* C8: the log holds exactly one entry, with its identifier, for each entry
\* taken from data that was not counted as correct, in processing order.
C8_OneLogEntryPerNonCorrect ==
    LET missed == SelectSeq(processed, NotCorrect) IN
    /\ Len(log_file) = Len(missed)
    /\ \A k \in 1..Len(log_file) : log_file[k].id = missed[k].id

\* C9: compare_results returns False for every pair that is not two numbers
\* or two lists, two identical bare documents included.
C9_OtherShapesNeverMatch ==
    ( /\ pc = "returned"
      /\ ~(IsNum(gold_result) /\ IsNum(pred_result))
      /\ ~(IsList(gold_result) /\ IsList(pred_result)) )
    => verdict = <<FALSE>>

C9_Witness ==
    /\ pc = "returned"
    /\ IsDict(gold_result)
    /\ pred_result = gold_result
    /\ verdict = <<FALSE>>

\* C10: total_count is the number of entries taken from data, each entry
\* increments at most one of correct_count and execution_errors, no counter
\* ever decreases, and correct_count + execution_errors <= total_count.
C10_Accounting ==
    /\ [](/\ total_count = idx
          /\ total_count = Len(processed)
          /\ correct_count + execution_errors <= total_count)
    /\ [][/\ total_count' >= total_count
          /\ correct_count' >= correct_count
          /\ execution_errors' >= execution_errors
          /\ (correct_count' - correct_count) + (execution_errors' - execution_errors)
                <= total_count' - total_count
          /\ total_count' - total_count <= 1]_vars

C10_Witness ==
    /\ pc = "loop"
    /\ total_count = MaxRecords
    /\ correct_count = 1
    /\ execution_errors = 1

====
